---- MODULE Spec2Model ----
(***************************************************************************)
(* Student Financial Tracker (Streamlit): the Description page keeps the   *)
(* uploaded file in the session, the Overview and Spending Analysis pages  *)
(* re-run their script top to bottom on every visit.  A page run is        *)
(* modelled as a sequence of steps over the script's variables; an         *)
(* uncaught Python exception ends the run in pc = "crashed".               *)
(*                                                                         *)
(* Text is a sequence of one-character strings.  Amounts are integers      *)
(* (cents).  A Date cell is an integer: a timestamp day * TicksPerDay +    *)
(* time-of-day tick, or one of the markers Missing, Bad, NaT.              *)
(***************************************************************************)
EXTENDS Integers, Sequences, FiniteSets, TLC

VARIABLES
    session,      \* st.session_state: uploaded_file, file_uploaded
    page,         \* the page whose script is running / was last run
    pc,           \* position of the running script
    loc,          \* the script's variables (a record), loc.assigned = names bound so far
    attempts,     \* delimiters handed to pd.read_csv by the retry loop, in order
    messages,     \* the notices the run has shown (st.info/error/warning/markdown)
    exception     \* the uncaught exception that ended the run, or "None"

vars == <<session, page, pc, loc, attempts, messages, exception>>

(***************************************************************************)
(* Python str operations used by the Avail Bal scan and the conversion.    *)
(***************************************************************************)
Min(a, b) == IF a <= b THEN a ELSE b
Max(a, b) == IF a >= b THEN a ELSE b

MatchesAt(s, pat, i) ==
    /\ i + Len(pat) - 1 <= Len(s)
    /\ \A k \in 1..Len(pat) : s[i + k - 1] = pat[k]

\* str.find: 0-based index of the first occurrence, -1 when there is none
Find(s, pat) ==
    LET hits == {i \in 1..Len(s) : MatchesAt(s, pat, i)}
    IN  IF hits = {} THEN -1
        ELSE (CHOOSE i \in hits : \A j \in hits : i <= j) - 1

\* the `in` operator on strings
Contains(s, pat) == Find(s, pat) # -1

\* s[:end], a negative end counting from the end of s
SliceTo(s, end) ==
    IF end >= 0 THEN SubSeq(s, 1, Min(end, Len(s)))
    ELSE SubSeq(s, 1, Max(Len(s) + end, 0))

\* str.split(sep) for a one-character sep
RECURSIVE Split(_, _)
Split(s, sep) ==
    LET i == Find(s, <<sep>>)
    IN  IF i = -1 THEN <<s>>
        ELSE <<SubSeq(s, 1, i)>> \o Split(SubSeq(s, i + 2, Len(s)), sep)

Whitespace == {" ", "\t"}

\* str.strip()
RECURSIVE Strip(_)
Strip(s) ==
    IF s = <<>> THEN s
    ELSE IF Head(s) \in Whitespace THEN Strip(Tail(s))
    ELSE IF s[Len(s)] \in Whitespace THEN Strip(SubSeq(s, 1, Len(s) - 1))
    ELSE s

\* str.replace(ch, '')
Remove(s, ch) == SelectSeq(s, LAMBDA c : c # ch)

Digits == {"0", "1", "2", "3", "4", "5", "6", "7", "8", "9"}

DigitValue(c) ==
    CASE c = "0" -> 0 [] c = "1" -> 1 [] c = "2" -> 2 [] c = "3" -> 3
      [] c = "4" -> 4 [] c = "5" -> 5 [] c = "6" -> 6 [] c = "7" -> 7
      [] c = "8" -> 8 [] c = "9" -> 9

RECURSIVE DigitsValue(_)
DigitsValue(s) ==
    IF s = <<>> THEN 0
    ELSE 10 * DigitsValue(SubSeq(s, 1, Len(s) - 1)) + DigitValue(s[Len(s)])

RECURSIVE Pow10(_)
Pow10(n) == IF n = 0 THEN 1 ELSE 10 * Pow10(n - 1)

\* float(text): [ok |-> TRUE, num, den] for the decimal num / den, [ok |-> FALSE]
\* where Python raises ValueError.  Surrounding whitespace and one sign are
\* accepted, then digits with at most one point and at least one digit.  (The
\* exponent, inf, nan and underscore forms need characters no input here has.)
Float(text) ==
    LET t    == Strip(text)
        sgn  == t # <<>> /\ Head(t) \in {"-", "+"}
        body == IF sgn THEN Tail(t) ELSE t
        dot  == Find(body, <<".">>)
        ip   == IF dot = -1 THEN body ELSE SubSeq(body, 1, dot)
        fp   == IF dot = -1 THEN <<>> ELSE SubSeq(body, dot + 2, Len(body))
        good == /\ \A k \in 1..Len(ip) : ip[k] \in Digits
                /\ \A k \in 1..Len(fp) : fp[k] \in Digits
                /\ Len(ip) + Len(fp) > 0
    IN  IF ~good THEN [ok |-> FALSE, num |-> 0, den |-> 1]
        ELSE [ok  |-> TRUE,
              num |-> (IF sgn /\ Head(t) = "-" THEN -1 ELSE 1)
                        * DigitsValue(ip \o fp),
              den |-> Pow10(Len(fp))]

AvailBal == <<"A", "v", "a", "i", "l", " ", "B", "a", "l">>
AsOf     == <<" ", "a", "s", " ", "o", "f">>
NA       == <<"N", "/", "A">>

\* Lines 60-68 of the Overview script: the balance text of the first line that
\* contains "Avail Bal".  [raised |-> TRUE] when split(':')[1] raises IndexError.
RECURSIVE ScanAvailBal(_, _)
ScanAvailBal(lines, balance_value) ==
    IF lines = <<>> THEN [raised |-> FALSE, balance_value |-> balance_value]
    ELSE LET line == Head(lines) IN
         IF Contains(line, AvailBal)
         THEN LET end_index    == Find(line, AsOf)
                  balance_part == SliceTo(line, end_index)
                  parts        == Split(balance_part, ":")
              IN  IF Len(parts) < 2
                  THEN [raised |-> TRUE, balance_value |-> balance_value]
                  ELSE [raised |-> FALSE, balance_value |-> Strip(parts[2])]
         ELSE ScanAvailBal(Tail(lines), balance_value)

(***************************************************************************)
(* The table (a pandas DataFrame): the columns present and the rows.       *)
(***************************************************************************)
None == [kind |-> "None"]

DataFrame(cols, rows) == [kind |-> "df", cols |-> cols, rows |-> rows]

Columns == {"Date", "Tran Type", "Amount", "Payee"}

TicksPerDay == 2       \* time-of-day resolution of a timestamp
Missing == -1          \* an empty Date cell
Bad     == -2          \* a Date cell that is no date
NaT     == -3          \* pandas' not-a-time

\* pd.to_datetime of a date (st.date_input's value): midnight of that day
Midnight(day) == day * TicksPerDay

\* the calendar date of a timestamp
DateOf(ts) == ts \div TicksPerDay

\* pd.to_datetime(df["Date"]) (coerce = FALSE) and
\* pd.to_datetime(df["Date"], errors="coerce") (coerce = TRUE)
ToDatetimeRaises(rows, coerce) ==
    ~coerce /\ \E k \in 1..Len(rows) : rows[k].Date = Bad

ToDatetime(rows) ==
    [k \in 1..Len(rows) |->
        [rows[k] EXCEPT !.Date = IF rows[k].Date \in {Missing, Bad, NaT}
                                 THEN NaT ELSE rows[k].Date]]

\* Series.min() / Series.max() of the Date column, NaT skipped
ValidDates(rows) == {rows[k].Date : k \in 1..Len(rows)} \ {NaT}
DateMin(rows) ==
    IF ValidDates(rows) = {} THEN NaT
    ELSE CHOOSE d \in ValidDates(rows) : \A e \in ValidDates(rows) : d <= e
DateMax(rows) ==
    IF ValidDates(rows) = {} THEN NaT
    ELSE CHOOSE d \in ValidDates(rows) : \A e \in ValidDates(rows) : d >= e

\* df[(df["Date"] >= pd.to_datetime(date1)) & (df["Date"] <= pd.to_datetime(date2))]
\* a comparison with NaT is False
InWindow(row, date1, date2) ==
    /\ row.Date # NaT
    /\ row.Date >= Midnight(date1)
    /\ row.Date <= Midnight(date2)

FilterByDate(rows, date1, date2) ==
    SelectSeq(rows, LAMBDA row : InWindow(row, date1, date2))

cash_outflow_trantypes == {"D/D", "INT", "DEBIT", "EFTPOS", "BILLPAY"}
cash_inflow_trantypes  == {"CREDIT", "DEPOSIT", "INT", "TFR IN", "D/C"}

\* df_filtered[df_filtered['Tran Type'].isin(trantypes)]
IsIn(rows, trantypes) == SelectSeq(rows, LAMBDA row : row.Type \in trantypes)

\* Series.sum() of the Amount column
RECURSIVE SumAmount(_)
SumAmount(rows) ==
    IF rows = <<>> THEN 0 ELSE Head(rows).Amount + SumAmount(Tail(rows))

\* df_outflow[df_outflow['Amount'] < 0]['Amount'].sum()
TotalExpenses(df_outflow) ==
    SumAmount(SelectSeq(df_outflow, LAMBDA row : row.Amount < 0))

TotalIncomeAnySign(df_inflow) == SumAmount(df_inflow)

\* df_inflow[df_inflow['Amount'] > 0]['Amount'].sum()
TotalIncome(df_inflow) ==
    SumAmount(SelectSeq(df_inflow, LAMBDA row : row.Amount > 0))

Abs(x) == IF x < 0 THEN -x ELSE x

(***************************************************************************)
(* The daily series (Expenses Vs Income).  A cell of a numeric column is   *)
(* the number num / den or NaN.                                            *)
(***************************************************************************)
NaN == [nan |-> TRUE, num |-> 0, den |-> 1]
Number(v) == [nan |-> FALSE, num |-> v, den |-> 1]

\* df_filtered[['Date']].drop_duplicates(): the distinct Date values, each at
\* the place of its first row
RECURSIVE DropDuplicates(_)
DropDuplicates(rows) ==
    IF rows = <<>> THEN <<>>
    ELSE LET before == DropDuplicates(SubSeq(rows, 1, Len(rows) - 1))
             d      == rows[Len(rows)].Date
         IN  IF \E k \in 1..Len(before) : before[k] = d
             THEN before ELSE Append(before, d)

\* rows.groupby('Date')['Amount'].sum(): one sum per Date value of rows
GroupByDateSum(rows) ==
    [d \in {rows[k].Date : k \in 1..Len(rows)} |->
        SumAmount(SelectSeq(rows, LAMBDA row : row.Date = d))]

\* df_outflow.groupby('Date')['Amount'].sum().abs()
TotalExpensesDaily(df_outflow) ==
    LET g == GroupByDateSum(df_outflow) IN [d \in DOMAIN g |-> Abs(g[d])]

\* df_inflow.groupby('Date')['Amount'].sum()
TotalIncomeDaily(df_inflow) == GroupByDateSum(df_inflow)

\* left.merge(right, on='Date', how='left'): the column right adds to left
MergeLeft(dates, right) ==
    [k \in 1..Len(dates) |->
        IF dates[k] \in DOMAIN right THEN Number(right[dates[k]]) ELSE NaN]

\* column.fillna(0)
FillNa(column) ==
    [k \in 1..Len(column) |-> IF column[k].nan THEN Number(0) ELSE column[k]]

window      == 5
min_periods == 1

RECURSIVE SumCells(_, _, _)
SumCells(column, from, to) ==
    IF from > to THEN 0
    ELSE (IF column[to].nan THEN 0 ELSE column[to].num)
         + SumCells(column, from, to - 1)

\* column.rolling(window=w, min_periods=m).mean() of a column of whole numbers:
\* the mean of the observations among the last w cells, NaN when fewer than m
RollingMean(column, w, m) ==
    [k \in 1..Len(column) |->
        LET from == Max(1, k - w + 1)
            obs  == Cardinality({j \in from..k : ~column[j].nan})
        IN  IF obs < m \/ obs = 0 THEN NaN
            ELSE [nan |-> FALSE, num |-> SumCells(column, from, k), den |-> obs]]

SmoothNoMinPeriods(column) == RollingMean(column, window, window)

\* lines 304-305
Smooth(column) == RollingMean(column, window, min_periods)

\* lines 279-302: cash_flow_data before the moving average
CashFlowFilled(df_filtered, df_outflow, df_inflow) ==
    LET dates    == DropDuplicates(df_filtered)
        expenses == FillNa(MergeLeft(dates, TotalExpensesDaily(df_outflow)))
        income   == FillNa(MergeLeft(dates, TotalIncomeDaily(df_inflow)))
    IN  [k \in 1..Len(dates) |->
            [Date |-> dates[k], Expenses |-> expenses[k], Income |-> income[k]]]

\* lines 304-305 applied to both columns
CashFlowSmoothed(filled) ==
    LET expenses == Smooth([k \in 1..Len(filled) |-> filled[k].Expenses])
        income   == Smooth([k \in 1..Len(filled) |-> filled[k].Income])
    IN  [k \in 1..Len(filled) |->
            [Date |-> filled[k].Date, Expenses |-> expenses[k], Income |-> income[k]]]

\* the rows of amount < 0 grouped, in place of all the rows of df_outflow
PayeeSummaryOfNegativeRows(df_outflow) ==
    LET spent == SelectSeq(df_outflow, LAMBDA row : row.Amount < 0)
        payees == {spent[k].Payee : k \in 1..Len(spent)}
        total(p) == SumAmount(SelectSeq(spent, LAMBDA row : row.Payee = p))
    IN  {[Payee |-> p, Amount |-> total(p), AmountAbsolute |-> Abs(total(p))] :
            p \in payees}

\* lines 235-249: df_outflow.groupby("Payee")["Amount"].sum(), the negative
\* sums kept, with the magnitude as "Amount Absolute"
PayeeSummary(df_outflow) ==
    LET payees == {df_outflow[k].Payee : k \in 1..Len(df_outflow)}
        total(p) == SumAmount(SelectSeq(df_outflow, LAMBDA row : row.Payee = p))
    IN  {[Payee |-> p, Amount |-> total(p), AmountAbsolute |-> Abs(total(p))] :
            p \in {q \in payees : total(q) < 0}}

(***************************************************************************)
(* The savings goal container.                                             *)
(***************************************************************************)
\* min(max(progress, 0), 100) of the fraction p
Clamp(p) ==
    IF p.num < 0 THEN [num |-> 0, den |-> 1]
    ELSE IF p.num > 100 * p.den THEN [num |-> 100, den |-> 1]
    ELSE p

\* lines 196-227: the container's outcome for a balance text and a goal
SavingsProgress(balance_value, savings_goal) ==
    IF balance_value # NA
    THEN LET available_balance == Float(Remove(Remove(balance_value, "$"), ","))
         IN  IF ~available_balance.ok
             THEN [state |-> "ValueError", progress |-> [num |-> 0, den |-> 1]]
             ELSE IF savings_goal > 0
             THEN [state |-> "Progress",
                   progress |-> Clamp([num |-> available_balance.num * 100,
                                       den |-> available_balance.den * savings_goal])]
             ELSE [state |-> "NoGoal", progress |-> [num |-> 0, den |-> 1]]
    ELSE [state |-> "NoBalance", progress |-> [num |-> 0, den |-> 1]]

(***************************************************************************)
(* The uploaded file: whether its bytes decode as UTF-8, its lines, and    *)
(* what pd.read_csv(skiprows=6) makes of it under each delimiter.          *)
(***************************************************************************)
NoFile      == [kind |-> "none"]
ParserError == [kind |-> "ParserError"]
Delimiters  == <<",", ";", "\t">>

File(utf8, lines, csv) ==
    [kind |-> "file", utf8 |-> utf8, lines |-> lines, csv |-> csv]

Row(date, type, amount) ==
    [Date |-> date, Type |-> type, Amount |-> amount, Payee |-> "Shop"]

\* a comma-separated file: the other delimiters give one unnamed column
CommaCsv(table) ==
    [d \in {",", ";", "\t"} |->
        IF d = "," THEN table ELSE DataFrame({"Unnamed"}, table.rows)]

MaxRows   == 2      \* rows of a table of the mixed family
MaxSeries == 6      \* rows of a table of the series family

Days  == {1, 2}                 \* the days the small tables and the date widgets use
Goals == {0, 1000, 2000}        \* st.number_input values (min_value = 0.0)

GoodText == <<"$", "1", ",", "2", "3", "4", ".", "5", "6">>
GoodLine == AvailBal \o <<":", " ">> \o GoodText \o AsOf \o <<" ", "0", "1", "/", "0", "2">>

\* mixed family: every type/sign combination on one day, and two kinds of row
\* on every kind of Date cell
MixedRows ==
    {Row(Midnight(1), t, a) : t \in {"DEBIT", "INT", "CREDIT", "OTHER"},
                              a \in {-50, 0, 20}}
    \cup {Row(d, "DEBIT", -50) :
            d \in {Midnight(1) + TicksPerDay - 1, Midnight(2),
                   Midnight(2) + TicksPerDay - 1, Missing, Bad}}
    \cup {Row(d, "CREDIT", 20) :
            d \in {Midnight(1) + TicksPerDay - 1, Midnight(2),
                   Midnight(2) + TicksPerDay - 1, Missing, Bad}}

MixedTables ==
    UNION {[1..n -> MixedRows] : n \in 0..MaxRows}

\* series family: row k opens a new day with a debit or a credit, or adds a
\* debit to the day of row k - 1
RECURSIVE SeriesDay(_, _)
SeriesDay(kinds, k) ==
    IF k = 1 THEN 1
    ELSE SeriesDay(kinds, k - 1) + (IF kinds[k] = "same" THEN 0 ELSE 1)

SeriesTable(kinds) ==
    [k \in 1..Len(kinds) |->
        Row(Midnight(SeriesDay(kinds, k)),
            IF kinds[k] = "credit" THEN "CREDIT" ELSE "DEBIT",
            IF kinds[k] = "credit" THEN 10 * k ELSE -10 * k)]

SeriesTables ==
    {SeriesTable(kinds) :
        kinds \in UNION {[1..n -> {"debit", "credit", "same"}] : n \in 3..MaxSeries}}

\* payee family: two payees on one day, each with debits of either sign and a
\* credit
Payees == {"Shop", "Cafe"}

PayeeRows ==
    {[Row(Midnight(1), "DEBIT", a) EXCEPT !.Payee = p] :
        p \in Payees, a \in {-50, 20, 50}}
    \cup {[Row(Midnight(1), "CREDIT", -50) EXCEPT !.Payee = p] : p \in Payees}

PayeeTables ==
    UNION {[1..n -> PayeeRows] : n \in 1..MaxRows}

\* calendar family: debits of either sign on a Monday in January, a Friday in
\* February and a Sunday in March
CalendarDays == {1, 40, 63}

CalendarRows ==
    {Row(Midnight(d), "DEBIT", a) : d \in CalendarDays, a \in {-50, 20}}

CalendarTables ==
    UNION {[1..n -> CalendarRows] : n \in 1..MaxRows}

TableFiles ==
    {File(TRUE, <<GoodLine>>, CommaCsv(DataFrame(Columns, rows))) :
        rows \in MixedTables \cup SeriesTables \cup PayeeTables
                 \cup CalendarTables}

\* balance family: one Avail Bal line with or without the colon and the
\* marker, alone or between a heading and a second Avail Bal line
BalanceTexts ==
    {GoodText, <<"-", "5", "0">>, <<"a", "b", "c">>, <<>>,
     <<"1", "2", ":", "3", "4">>, NA}
LineTails == {<<>>, <<" ", "0", "1", "/", "0", "2">>, <<" ", "9", ":", "3", "0">>}

BalanceLines ==
    {AvailBal \o (IF colon THEN <<":", " ">> ELSE <<" ">>) \o text
              \o (IF marker THEN AsOf ELSE <<>>) \o tail :
        colon \in BOOLEAN, marker \in BOOLEAN, text \in BalanceTexts,
        tail \in LineTails}

OneRowTable == DataFrame(Columns, <<Row(Midnight(1), "DEBIT", -50)>>)

BalanceFiles ==
    {File(TRUE, lines, CommaCsv(OneRowTable)) :
        lines \in {<<line>> : line \in BalanceLines}
                  \cup {<<<<"A", "c", "c", "t">>, line, GoodLine>> : line \in BalanceLines}
                  \cup {<<>>, <<<<"A", "c", "c", "t">>>>}}

\* parse family: every outcome of every delimiter
ReadOutcomes ==
    {ParserError, DataFrame(Columns, <<>>), OneRowTable}
    \cup {DataFrame(Columns \ {c}, OneRowTable.rows) : c \in Columns}

ParseFiles ==
    {File(utf8, <<GoodLine>>, csv) :
        utf8 \in BOOLEAN, csv \in [{",", ";", "\t"} -> ReadOutcomes]}

Files == TableFiles \cup BalanceFiles \cup ParseFiles

\* the files a later upload of the session is drawn from: a good one, one whose
\* balance text is no number, one no delimiter reads
ReplacementFiles ==
    {File(TRUE, <<GoodLine>>, CommaCsv(OneRowTable)),
     File(TRUE, <<AvailBal \o <<":", " ", "a", "b", "c">> \o AsOf>>,
          CommaCsv(OneRowTable)),
     File(TRUE, <<GoodLine>>, [d \in {",", ";", "\t"} |-> ParserError])}

(***************************************************************************)
(* The script's variables.                                                 *)
(***************************************************************************)
NoProgress == [num |-> 0, den |-> 1]

\* nothing bound yet
LocBlank ==
    [balance_value |-> NA, total_expenses |-> 0, df |-> None,
     df_filtered |-> <<>>, df_outflow |-> <<>>, df_inflow |-> <<>>,
     date1 |-> 0, date2 |-> 0, total_income |-> 0,
     success |-> FALSE, i |-> 1,
     savings_goal |-> 0, savings |-> "NotRun", progress |-> NoProgress,
     payee_summary |-> {}, cash_flow_filled |-> <<>>, cash_flow_data |-> <<>>,
     monthly_spending |-> <<>>, weekly_spending |-> <<>>,
     assigned |-> {}]

\* Overview lines 46-50
LocInitialised ==
    [LocBlank EXCEPT !.assigned = {"balance_value", "total_expenses", "df",
                                   "df_filtered"}]

Idle == pc \in {"idle", "done", "stopped", "crashed"}

Init ==
    /\ session = [uploaded_file |-> NoFile, file_uploaded |-> FALSE]
    /\ page = "Description"
    /\ pc = "idle"
    /\ loc = LocBlank
    /\ attempts = <<>>
    /\ messages = {}
    /\ exception = "None"

\* the session keeps whatever the uploader returns, no file included
StoreUploadUnconditionally(session_state, uploaded_file) ==
    [uploaded_file |-> uploaded_file, file_uploaded |-> uploaded_file # NoFile]

\* Description lines 68-71: the session's file changes only when the uploader
\* returns one
StoreUpload(session_state, uploaded_file) ==
    IF uploaded_file # NoFile
    THEN [uploaded_file |-> uploaded_file, file_uploaded |-> TRUE]
    ELSE session_state

\* an uncaught exception: Streamlit shows it and the script stops
Crash(name) ==
    /\ pc' = "crashed"
    /\ exception' = name

(***************************************************************************)
(* Description page, lines 58-90: a run in which the uploader holds a file *)
(* stores it and switches to the Overview page.                            *)
(***************************************************************************)
DescriptionRun ==
    /\ Idle
    /\ \E uploaded_file \in {NoFile} \cup (IF session.uploaded_file = NoFile
                                           THEN Files ELSE ReplacementFiles) :
        /\ session' = StoreUpload(session, uploaded_file)
        /\ IF uploaded_file # NoFile
           THEN /\ page' = "Overview"
                /\ pc' = "guard"
                /\ messages' = {}
           ELSE /\ page' = "Description"
                /\ pc' = "done"
                /\ messages' = {IF session.file_uploaded
                                THEN "still_available" ELSE "please_upload"}
    /\ loc' = LocBlank
    /\ attempts' = <<>>
    /\ exception' = "None"

\* the user opens (or reruns) a page: its script starts from the top
Open(p) ==
    /\ Idle
    /\ page' = p
    /\ pc' = "guard"
    /\ loc' = LocBlank
    /\ attempts' = <<>>
    /\ messages' = {}
    /\ exception' = "None"
    /\ UNCHANGED session

OpenOverview == Open("Overview")
OpenSpending == Open("Spending")

(***************************************************************************)
(* Reading the file.                                                       *)
(***************************************************************************)
\* lines 38-50 (Overview), 28-34 (Spending Analysis)
Guard(p, initial) ==
    /\ page = p
    /\ pc = "guard"
    /\ IF session.uploaded_file = NoFile
       THEN /\ messages' = messages \cup {"please_upload"}
            /\ pc' = "stopped"
            /\ loc' = loc
       ELSE /\ messages' = messages
            /\ pc' = "read"
            /\ loc' = initial
    /\ UNCHANGED <<session, page, attempts, exception>>

OverviewGuard == Guard("Overview", LocInitialised)
SpendingGuard == Guard("Spending", LocBlank)

\* Overview lines 54-72: what the try block leaves behind.  raised: the block
\* ended in an exception (decode, split(':')[1], read_csv)
OverviewTry(f, balance_value) ==
    IF ~f.utf8
    THEN [raised |-> TRUE, balance_value |-> balance_value, df |-> None]
    ELSE LET scan == ScanAvailBal(f.lines, balance_value) IN
         IF scan.raised
         THEN [raised |-> TRUE, balance_value |-> balance_value, df |-> None]
         ELSE IF f.csv[","].kind # "df"
         THEN [raised |-> TRUE, balance_value |-> scan.balance_value, df |-> None]
         ELSE [raised |-> FALSE, balance_value |-> scan.balance_value,
               df |-> f.csv[","]]

\* lines 74-81: the handler reports the error and starts the retry loop
OverviewRead ==
    /\ page = "Overview"
    /\ pc = "read"
    /\ LET try == OverviewTry(session.uploaded_file, loc.balance_value) IN
        IF try.raised
        THEN /\ loc' = [loc EXCEPT !.balance_value = try.balance_value,
                                   !.success = FALSE, !.i = 1,
                                   !.assigned = @ \cup {"success"}]
             /\ messages' = messages \cup {"error_reading"}
             /\ pc' = "retry"
        ELSE /\ loc' = [loc EXCEPT !.balance_value = try.balance_value,
                                   !.df = try.df]
             /\ messages' = messages
             /\ pc' = "table"
    /\ UNCHANGED <<session, page, attempts, exception>>

\* Spending Analysis lines 38-50
SpendingRead ==
    /\ page = "Spending"
    /\ pc = "read"
    /\ LET df == session.uploaded_file.csv[","] IN
        IF df.kind # "df"
        THEN /\ loc' = [loc EXCEPT !.success = FALSE, !.i = 1,
                                   !.assigned = @ \cup {"success"}]
             /\ messages' = messages \cup {"error_reading"}
             /\ pc' = "retry"
        ELSE /\ loc' = [loc EXCEPT !.df = df, !.assigned = @ \cup {"df"}]
             /\ messages' = messages
             /\ pc' = "table"
    /\ UNCHANGED <<session, page, attempts, exception>>

RetryIterationNoBreak(csv, i) ==
    LET r == csv[Delimiters[i]]
    IN  [success |-> r.kind = "df", df |-> r, break |-> FALSE]

\* lines 84-93, one pass of the loop body with delimiter number i
RetryIteration(csv, i) ==
    LET r == csv[Delimiters[i]]
    IN  [success |-> r.kind = "df", df |-> r, break |-> r.kind = "df"]

\* lines 82-99 (Overview), 51-71 (Spending Analysis): one pass of the loop,
\* and after the last one the `if not success` block
RetryLoop(p) ==
    /\ page = p
    /\ pc = "retry"
    /\ LET it      == RetryIteration(session.uploaded_file.csv, loc.i)
           success == loc.success \/ it.success
           last    == it.break \/ loc.i = Len(Delimiters)
       IN  /\ attempts' = Append(attempts, Delimiters[loc.i])
           /\ loc' = [loc EXCEPT
                        !.success = success,
                        !.df = IF last /\ ~success THEN None
                               ELSE IF it.success THEN it.df ELSE @,
                        !.i = IF last THEN @ ELSE @ + 1,
                        !.assigned = @ \cup (IF it.success \/ last
                                             THEN {"df"} ELSE {})]
           /\ messages' = messages
                \cup (IF it.success THEN {} ELSE {"warn_delimiter"})
                \cup (IF last /\ ~success THEN {"attempts_failed"} ELSE {})
           /\ pc' = IF last THEN "table" ELSE "retry"
    /\ UNCHANGED <<session, page, exception>>

OverviewRetry == RetryLoop("Overview")
SpendingRetry == RetryLoop("Spending")

(***************************************************************************)
(* The table branch: dates, window, classification, totals.                *)
(***************************************************************************)
\* the dates st.date_input can return: its default or a day the user picks
Picks(default) == Days \cup (IF default = NaT THEN {} ELSE {DateOf(default)})

\* Overview lines 117-140 / Spending Analysis lines 90-100 on the converted
\* rows: the first missing column raises KeyError, the names bound before it
\* stay bound
Totals(cols, rows, date1, date2) ==
    LET df_filtered == FilterByDate(rows, date1, date2)
        df_outflow  == IsIn(df_filtered, cash_outflow_trantypes)
        df_inflow   == IsIn(df_filtered, cash_inflow_trantypes)
        missing     == IF "Tran Type" \notin cols THEN "Tran Type"
                       ELSE IF "Amount" \notin cols THEN "Amount" ELSE "None"
    IN  [exception      |-> IF missing = "None" THEN "None" ELSE "KeyError",
         df_filtered    |-> df_filtered,
         df_outflow     |-> IF missing = "Tran Type" THEN <<>> ELSE df_outflow,
         df_inflow      |-> IF missing = "None" THEN df_inflow ELSE <<>>,
         total_expenses |-> IF missing = "None" THEN TotalExpenses(df_outflow) ELSE 0,
         total_income   |-> IF missing = "None" THEN TotalIncome(df_inflow) ELSE 0,
         assigned       |-> {"date1", "date2", "df_filtered"}
                            \cup (IF missing = "Tran Type" THEN {} ELSE {"df_outflow"})
                            \cup (IF missing = "None"
                                  THEN {"total_expenses", "formatted_total_expenses",
                                        "df_inflow", "total_income"}
                                  ELSE {})]

\* Overview lines 102-142
OverviewTable ==
    /\ page = "Overview"
    /\ pc = "table"
    /\ LET df == loc.df IN
        IF df.kind # "df" \/ df.rows = <<>>
        THEN /\ messages' = messages \cup {"improper_format"}
             /\ pc' = "metrics"
             /\ UNCHANGED <<loc, exception>>
        ELSE IF "Date" \notin df.cols
        THEN /\ Crash("KeyError")
             /\ UNCHANGED <<loc, messages>>
        ELSE IF ToDatetimeRaises(df.rows, FALSE)
        THEN /\ Crash("DateParseError")
             /\ UNCHANGED <<loc, messages>>
        ELSE LET rows == ToDatetime(df.rows) IN
             \/ /\ DateMin(rows) = NaT       \* st.date_input given NaT
                /\ Crash("ValueError")
                /\ loc' = [loc EXCEPT !.df = DataFrame(df.cols, rows)]
                /\ UNCHANGED messages
             \/ \E date1 \in Picks(DateMin(rows)), date2 \in Picks(DateMax(rows)) :
                 LET t == Totals(df.cols, rows, date1, date2) IN
                 /\ loc' = [loc EXCEPT !.df = DataFrame(df.cols, rows),
                                       !.date1 = date1, !.date2 = date2,
                                       !.df_filtered = t.df_filtered,
                                       !.df_outflow = t.df_outflow,
                                       !.df_inflow = t.df_inflow,
                                       !.total_expenses = t.total_expenses,
                                       !.total_income = t.total_income,
                                       !.assigned = @ \cup t.assigned]
                 /\ messages' = messages \cup {"period"}
                 /\ IF t.exception = "None"
                    THEN pc' = "metrics" /\ UNCHANGED exception
                    ELSE Crash(t.exception)
    /\ UNCHANGED <<session, page, attempts>>

\* Overview lines 144-188: the three metric columns
OverviewMetrics ==
    /\ page = "Overview"
    /\ pc = "metrics"
    /\ IF {"formatted_total_expenses", "total_income"} \subseteq loc.assigned
       THEN /\ messages' = messages \cup {"metrics"}
            /\ pc' = "savings"
            /\ UNCHANGED exception
       ELSE /\ Crash("NameError")
            /\ UNCHANGED messages
    /\ UNCHANGED <<session, page, loc, attempts>>

\* Overview lines 190-227
OverviewSavings ==
    /\ page = "Overview"
    /\ pc = "savings"
    /\ \E savings_goal \in Goals :
        LET s == SavingsProgress(loc.balance_value, savings_goal) IN
        /\ loc' = [loc EXCEPT !.savings_goal = savings_goal,
                              !.savings = s.state, !.progress = s.progress]
        /\ IF s.state = "ValueError"
           THEN Crash("ValueError") /\ UNCHANGED messages
           ELSE /\ pc' = "charts"
                /\ messages' = messages \cup {s.state}
                /\ UNCHANGED exception
    /\ UNCHANGED <<session, page, attempts>>

\* Overview lines 229-368: expense breakdown, daily series, table toggle
OverviewCharts ==
    /\ page = "Overview"
    /\ pc = "charts"
    /\ IF "df_outflow" \notin loc.assigned
       THEN Crash("NameError") /\ UNCHANGED <<loc, messages>>
       ELSE IF "Payee" \notin loc.df.cols
       THEN Crash("KeyError") /\ UNCHANGED <<loc, messages>>
       ELSE LET filled == CashFlowFilled(loc.df_filtered, loc.df_outflow,
                                         loc.df_inflow)
                chart  == loc.df_filtered # <<>>
            IN  /\ loc' = [loc EXCEPT
                     !.payee_summary = PayeeSummary(loc.df_outflow),
                     !.cash_flow_filled = IF chart THEN filled ELSE <<>>,
                     !.cash_flow_data = IF chart THEN CashFlowSmoothed(filled)
                                        ELSE <<>>,
                     !.assigned = @ \cup {"payee_summary"}
                                    \cup (IF chart THEN {"cash_flow_data"} ELSE {})]
                /\ messages' = messages
                     \cup (IF loc.df_outflow = <<>> THEN {"no_data"}
                           ELSE IF PayeeSummary(loc.df_outflow) = {}
                           THEN {"no_expense_data"} ELSE {"pie_chart"})
                     \cup (IF chart THEN {"line_chart"} ELSE {"no_cash_flow"})
                     \cup {"file_available"}
                /\ pc' = "done"
                /\ UNCHANGED exception
    /\ UNCHANGED <<session, page, attempts>>

(***************************************************************************)
(* Spending Analysis: month and weekday totals.  Day n is the n-th day of  *)
(* 2024; 1 January 2024 was a Monday.                                      *)
(***************************************************************************)
month_order == <<"January", "February", "March", "April", "May", "June",
                 "July", "August", "September", "October", "November",
                 "December">>
days_order  == <<"Monday", "Tuesday", "Wednesday", "Thursday", "Friday",
                 "Saturday", "Sunday">>
MonthLengths == <<31, 29, 31, 30, 31, 30, 31, 31, 30, 31, 30, 31>>

RECURSIVE MonthIndex(_, _)
MonthIndex(day, m) ==
    IF m = 12 \/ day <= MonthLengths[m] THEN m
    ELSE MonthIndex(day - MonthLengths[m], m + 1)

\* Series.dt.month_name() / Series.dt.day_name()
MonthName(ts) == month_order[MonthIndex(DateOf(ts), 1)]
DayName(ts)   == days_order[((DateOf(ts) - 1) % 7) + 1]

\* lines 115-128 and 141: groupby('Month') sum, calendar order, abs
MonthlySpending(df_outflow) ==
    LET present == {MonthName(df_outflow[k].Date) : k \in 1..Len(df_outflow)}
        ordered == SelectSeq(month_order, LAMBDA m : m \in present)
    IN  [k \in 1..Len(ordered) |->
            [Month |-> ordered[k],
             total_expenses |->
                Abs(SumAmount(SelectSeq(df_outflow,
                        LAMBDA row : MonthName(row.Date) = ordered[k])))]]

\* lines 131-138 and 143
WeeklySpending(df_outflow) ==
    LET present == {DayName(df_outflow[k].Date) : k \in 1..Len(df_outflow)}
        ordered == SelectSeq(days_order, LAMBDA d : d \in present)
    IN  [k \in 1..Len(ordered) |->
            [DayOfWeek |-> ordered[k],
             total_expenses |->
                Abs(SumAmount(SelectSeq(df_outflow,
                        LAMBDA row : DayName(row.Date) = ordered[k])))]]

\* Spending Analysis lines 74-200
SpendingTable ==
    /\ page = "Spending"
    /\ pc = "table"
    /\ LET df == loc.df IN
        IF df.kind # "df" \/ df.rows = <<>>
        THEN /\ messages' = messages \cup {"file_available"}
             /\ pc' = "done"
             /\ UNCHANGED <<loc, exception>>
        ELSE IF "Date" \notin df.cols
        THEN /\ Crash("KeyError")
             /\ UNCHANGED <<loc, messages>>
        ELSE LET rows == ToDatetime(df.rows) IN
             \/ /\ DateMin(rows) = NaT       \* st.date_input given NaT
                /\ Crash("ValueError")
                /\ loc' = [loc EXCEPT !.df = DataFrame(df.cols, rows)]
                /\ UNCHANGED messages
             \/ \E date1 \in Picks(DateMin(rows)), date2 \in Picks(DateMax(rows)) :
                 LET t == Totals(df.cols, rows, date1, date2) IN
                 /\ loc' = [loc EXCEPT !.df = DataFrame(df.cols, rows),
                                       !.date1 = date1, !.date2 = date2,
                                       !.df_filtered = t.df_filtered,
                                       !.df_outflow = t.df_outflow,
                                       !.total_expenses = t.total_expenses,
                                       !.monthly_spending =
                                            MonthlySpending(t.df_outflow),
                                       !.weekly_spending =
                                            WeeklySpending(t.df_outflow),
                                       !.assigned = (@ \cup t.assigned)
                                            \ {"df_inflow", "total_income"}]
                 /\ IF t.exception = "None"
                    THEN /\ pc' = "done"
                         /\ messages' = messages
                              \cup {"period", "bar_charts", "file_available"}
                         /\ UNCHANGED exception
                    ELSE /\ Crash(t.exception)
                         /\ messages' = messages \cup {"period"}
    /\ UNCHANGED <<session, page, attempts>>

Next ==
    \/ DescriptionRun
    \/ OpenOverview
    \/ OpenSpending
    \/ OverviewGuard
    \/ OverviewRead
    \/ OverviewRetry
    \/ OverviewTable
    \/ OverviewMetrics
    \/ OverviewSavings
    \/ OverviewCharts
    \/ SpendingGuard
    \/ SpendingRead
    \/ SpendingRetry
    \/ SpendingTable

Spec == Init /\ [][Next]_vars

(***************************************************************************)
(* Properties.                                                             *)
(***************************************************************************)
\* the sum of the amounts of the rows whose type is in types and whose amount
\* has the sign of sign
SignedSum(rows, types, sign) ==
    LET f[k \in 0..Len(rows)] ==
            IF k = 0 THEN 0
            ELSE f[k - 1] + (IF rows[k].Type \in types /\ rows[k].Amount * sign > 0
                             THEN rows[k].Amount ELSE 0)
    IN  f[Len(rows)]

\* C1: for every filtered table, total_expenses is the sum of the amounts of
\* exactly the rows of type D/D, INT, DEBIT, EFTPOS or BILLPAY with amount < 0,
\* total_income the sum of exactly the rows of type CREDIT, DEPOSIT, INT,
\* TFR IN or D/C with amount > 0 (so INT counts by sign, zero and other types
\* count nowhere), and total_expenses <= 0 <= total_income.
C1_TotalsBySignAndType ==
    /\ "formatted_total_expenses" \in loc.assigned =>
        /\ loc.total_expenses =
             SignedSum(loc.df_filtered,
                       {"D/D", "INT", "DEBIT", "EFTPOS", "BILLPAY"}, -1)
        /\ loc.total_expenses <= 0
    /\ "total_income" \in loc.assigned =>
        /\ loc.total_income =
             SignedSum(loc.df_filtered,
                       {"CREDIT", "DEPOSIT", "INT", "TFR IN", "D/C"}, 1)
        /\ loc.total_income >= 0

\* a filtered table with an INT outflow and an INT inflow, both totals computed
C1_Witness ==
    /\ "total_income" \in loc.assigned
    /\ \E j, k \in 1..Len(loc.df_filtered) :
        /\ loc.df_filtered[j].Type = "INT" /\ loc.df_filtered[j].Amount < 0
        /\ loc.df_filtered[k].Type = "INT" /\ loc.df_filtered[k].Amount > 0
    /\ loc.total_expenses < 0
    /\ loc.total_income > 0

\* C2: the savings container has exactly three outcomes: NoBalance when no
\* balance was extracted, NoGoal when a balance exists and goal <= 0, and
\* otherwise a progress value clamp(balance / goal * 100, 0, 100) in [0, 100].
C2_ThreeSavingsOutcomes ==
    loc.savings # "NotRun" =>
        /\ loc.savings \in {"NoBalance", "NoGoal", "Progress"}
        /\ loc.savings = "NoBalance" <=> loc.balance_value = NA
        /\ loc.savings = "NoGoal" <=>
             (loc.balance_value # NA /\ loc.savings_goal <= 0)
        /\ loc.savings = "Progress" =>
             /\ loc.savings_goal > 0
             /\ 0 <= loc.progress.num
             /\ loc.progress.num <= 100 * loc.progress.den

\* C3: the date-range filter keeps exactly the rows whose calendar date d
\* satisfies start <= d <= end, whatever their time of day; start > end gives
\* the empty table.
C3_FilterByCalendarDate ==
    "df_filtered" \in loc.assigned /\ loc.df.kind = "df" /\ pc # "read" =>
        loc.df_filtered =
            SelectSeq(loc.df.rows,
                      LAMBDA row : /\ row.Date \notin {NaT, Missing, Bad}
                                   /\ loc.date1 <= DateOf(row.Date)
                                   /\ DateOf(row.Date) <= loc.date2)

C5_DailyValuesBySign ==
    "cash_flow_data" \in loc.assigned =>
        \A k \in 1..Len(loc.cash_flow_filled) :
            LET day == SelectSeq(loc.df_filtered,
                         LAMBDA row : row.Date = loc.cash_flow_filled[k].Date)
            IN  /\ loc.cash_flow_filled[k].Expenses =
                     Number(-SignedSum(day, {"D/D", "INT", "DEBIT", "EFTPOS",
                                             "BILLPAY"}, -1))
                /\ loc.cash_flow_filled[k].Income =
                     Number(SignedSum(day, {"CREDIT", "DEPOSIT", "INT",
                                            "TFR IN", "D/C"}, 1))

\* C6: the retry loop tries comma, semicolon, tab in that order, stops at the
\* first delimiter that reads the file and keeps that table; when none reads
\* it the table is absent and no transactions are produced.
C6_DelimiterRetry ==
    LET csv   == session.uploaded_file.csv
        order == <<",", ";", "\t">>
        reads == {k \in 1..3 : csv[order[k]].kind = "df"}
    IN  /\ Len(attempts) <= 3
        /\ \A k \in 1..Len(attempts) : attempts[k] = order[k]
        /\ \A k \in 1..(Len(attempts) - 1) : csv[attempts[k]].kind # "df"
        /\ pc = "table" /\ "error_reading" \in messages =>
             IF reads # {}
             THEN LET first == CHOOSE k \in reads : \A j \in reads : k <= j
                  IN  /\ attempts = SubSeq(order, 1, first)
                      /\ loc.df = csv[order[first]]
             ELSE /\ attempts = order
                  /\ loc.df = None
                  /\ "attempts_failed" \in messages
        /\ "attempts_failed" \in messages =>
             /\ loc.df = None
             /\ loc.df_filtered = <<>>
             /\ {"metrics", "pie_chart", "line_chart", "bar_charts"}
                    \cap messages = {}

\* comma failed, semicolon read the file: the loop stopped there
C6_Witness ==
    /\ pc = "table"
    /\ attempts = <<",", ";">>
    /\ loc.df = session.uploaded_file.csv[";"]
    /\ session.uploaded_file.csv["\t"].kind = "df"
    /\ session.uploaded_file.csv["\t"] # loc.df

\* C7: on every fatal condition of an upload (not UTF-8, no delimiter reads
\* it, empty table, a required column missing) the Overview run shows a
\* message, renders no metric or chart and reaches the end of the script
\* without an unhandled exception.
C7_FatalDegradesGracefully ==
    /\ page = "Overview"
    /\ pc \in {"done", "crashed"}
    /\ \/ loc.df.kind # "df"
       \/ loc.df.rows = <<>>
       \/ ~(Columns \subseteq loc.df.cols)
    => /\ pc = "done"
       /\ exception = "None"
       /\ messages \cap {"improper_format", "attempts_failed"} # {}
       /\ messages \cap {"metrics", "pie_chart", "line_chart"} = {}

\* C8: for the first line that contains "Avail Bal": with the marker " as of"
\* and a colon before it, the balance text is the trimmed text between the
\* first colon and the marker; with the marker or the colon absent the balance
\* stays unavailable, no error is reported and the table is read as usual.
C8_AvailBalExtraction ==
    LET f      == session.uploaded_file
        hits   == {k \in 1..Len(f.lines) : Contains(f.lines[k], AvailBal)}
        line   == f.lines[CHOOSE k \in hits : \A j \in hits : k <= j]
        colon  == Find(line, <<":">>)
        marker == Find(line, AsOf)
    IN  /\ page = "Overview"
        /\ pc \in {"retry", "table", "metrics", "savings", "charts", "done",
                   "crashed"}
        /\ f.utf8
        /\ f.csv[","].kind = "df"
        /\ hits # {}
        => IF marker # -1 /\ colon # -1 /\ colon < marker
           THEN loc.balance_value = Strip(SubSeq(line, colon + 2, marker))
           ELSE /\ loc.balance_value = NA
                /\ "error_reading" \notin messages
                /\ attempts = <<>>
                /\ pc # "retry"

\* C9: converting the extracted balance text to a number never raises: a
\* decimal (after removing "$" and ",") gives that decimal, anything else
\* gives the NoBalance outcome.
C9_BalanceConversionNeverRaises ==
    loc.savings # "NotRun" /\ loc.balance_value # NA =>
        IF Float(Remove(Remove(loc.balance_value, "$"), ",")).ok
        THEN loc.savings \in {"NoGoal", "Progress"}
        ELSE loc.savings = "NoBalance"

\* C10: on both pages a table with rows whose Date cannot be parsed is still
\* processed: those rows are left out, the others are processed as if the bad
\* rows were not in the file, and the number of dropped rows is reported.
C10_BadDateRowsDropped ==
    LET table == session.uploaded_file.csv[","]
        good  == SelectSeq(table.rows, LAMBDA row : row.Date # Bad)
    IN  /\ \/ page = "Overview" /\ pc \in {"metrics", "savings", "charts",
                                           "done", "crashed"}
           \/ page = "Spending" /\ pc \in {"done", "crashed"}
        /\ "error_reading" \notin messages
        /\ table.kind = "df"
        /\ Columns \subseteq table.cols
        /\ Len(good) < Len(table.rows)
        => /\ exception # "DateParseError"
           /\ "df_filtered" \in loc.assigned =>
                loc.df_filtered =
                    FilterByDate(ToDatetime(good), loc.date1, loc.date2)
           /\ "dropped_rows_count" \in messages

\* the sum of the amounts of the rows of the payee whose type is in types
PayeeSum(rows, types, payee) ==
    LET f[k \in 0..Len(rows)] ==
            IF k = 0 THEN 0
            ELSE f[k - 1] + (IF rows[k].Type \in types /\ rows[k].Payee = payee
                             THEN rows[k].Amount ELSE 0)
    IN  f[Len(rows)]

\* C11: the per-payee breakdown has exactly one entry for each payee whose
\* amounts over the filtered rows of type D/D, INT, DEBIT, EFTPOS or BILLPAY
\* sum to less than 0, holding that signed sum and its magnitude; a payee
\* whose sum is >= 0, or who has no row of these types in the window, has no
\* entry.
C11_PayeeBreakdown ==
    "payee_summary" \in loc.assigned =>
        LET types == {"D/D", "INT", "DEBIT", "EFTPOS", "BILLPAY"}
            rows  == loc.df_filtered
            sum(p) == PayeeSum(rows, types, p)
            has(p) == \E k \in 1..Len(rows) :
                        rows[k].Type \in types /\ rows[k].Payee = p
        IN  /\ \A e \in loc.payee_summary :
                 /\ has(e.Payee)
                 /\ e.Amount = sum(e.Payee)
                 /\ e.Amount < 0
                 /\ e.AmountAbsolute = -e.Amount
                 /\ \A other \in loc.payee_summary :
                        other.Payee = e.Payee => other = e
            /\ \A k \in 1..Len(rows) :
                 (has(rows[k].Payee) /\ sum(rows[k].Payee) < 0)
                    => \E e \in loc.payee_summary : e.Payee = rows[k].Payee

\* two filtered rows: one payee has an entry, the other, with a credit only,
\* has none
C11_Witness ==
    /\ "payee_summary" \in loc.assigned
    /\ Len(loc.df_filtered) = 2
    /\ loc.payee_summary # {}
    /\ \E k \in 1..Len(loc.df_filtered) :
        /\ loc.df_filtered[k].Type = "CREDIT"
        /\ \A e \in loc.payee_summary : e.Payee # loc.df_filtered[k].Payee

\* C12: the monthly and weekday totals hold, per bucket, the sum of the
\* magnitudes of the filtered rows of type D/D, INT, DEBIT, EFTPOS or BILLPAY
\* with amount < 0 that fall in that month / weekday (a positive row of such a
\* type reduces no bucket); the buckets are in the order January..December
\* and Monday..Sunday, a bucket with no such row is absent, and the values of
\* either table sum to the magnitude of total_expenses.
C12_BucketsOfOutflowRows ==
    (page = "Spending" /\ "bar_charts" \in messages) =>
        LET types == {"D/D", "INT", "DEBIT", "EFTPOS", "BILLPAY"}
            spent == SelectSeq(loc.df_filtered,
                        LAMBDA row : row.Type \in types /\ row.Amount < 0)
            in_month(m) == SelectSeq(spent, LAMBDA row : MonthName(row.Date) = m)
            in_day(d)   == SelectSeq(spent, LAMBDA row : DayName(row.Date) = d)
            months == SelectSeq(month_order, LAMBDA m : in_month(m) # <<>>)
            days   == SelectSeq(days_order, LAMBDA d : in_day(d) # <<>>)
            values(buckets) ==
                LET f[k \in 0..Len(buckets)] ==
                        IF k = 0 THEN 0 ELSE f[k - 1] + buckets[k].total_expenses
                IN  f[Len(buckets)]
        IN  /\ loc.monthly_spending =
                 [k \in 1..Len(months) |->
                    [Month |-> months[k],
                     total_expenses |-> -SignedSum(in_month(months[k]), types, -1)]]
            /\ loc.weekly_spending =
                 [k \in 1..Len(days) |->
                    [DayOfWeek |-> days[k],
                     total_expenses |-> -SignedSum(in_day(days[k]), types, -1)]]
            /\ values(loc.monthly_spending) = -loc.total_expenses
            /\ values(loc.weekly_spending) = -loc.total_expenses

\* C13: in every reachable state file_uploaded is true exactly when the
\* session holds a file; an Overview or Spending Analysis run goes past its
\* guard only with a file held, reading that file, and otherwise stops with
\* the 'please upload' notice alone and nothing read; and in every step a held
\* file stays the session's file unless the step is an upload, which puts the
\* new file in its place as a whole and switches to the Overview page.
C13_SessionFile ==
    /\ [](/\ session.file_uploaded <=> session.uploaded_file # NoFile
          /\ (page \in {"Overview", "Spending"} /\ pc # "guard") =>
                IF session.uploaded_file # NoFile
                THEN /\ pc # "stopped"
                     /\ "please_upload" \notin messages
                     /\ (pc = "table" /\ loc.df # None) =>
                            \E d \in DOMAIN session.uploaded_file.csv :
                                loc.df = session.uploaded_file.csv[d]
                ELSE /\ pc = "stopped"
                     /\ messages = {"please_upload"}
                     /\ attempts = <<>>
                     /\ loc = LocBlank)
    /\ [][session.uploaded_file # NoFile =>
            \/ session' = session
            \/ /\ session'.uploaded_file \in ReplacementFiles
               /\ session'.file_uploaded
               /\ page' = "Overview"
               /\ pc' = "guard"]_vars

\* a Description run in which the uploader returned no file, after one upload
\* was replaced by another: the session still holds the second file
C13_Witness ==
    /\ page = "Description"
    /\ pc = "done"
    /\ messages = {"still_available"}
    /\ session.file_uploaded
    /\ session.uploaded_file =
         File(TRUE, <<GoodLine>>, [d \in {",", ";", "\t"} |-> ParserError])

====
